---- MODULE Spec2Model ----
(***************************************************************************)
(* A model of scripts/statistics.js: the crash-data loader (a csv stream   *)
(* read into an array behind a promise), the value normalizer handed to    *)
(* the csv parser, the aggregator computeStats and the reporter            *)
(* displayStats.                                                           *)
(*                                                                         *)
(* JavaScript values are modelled as follows.                              *)
(*  - strings are TLA+ strings (Len, \o and SubSeq act on them);           *)
(*  - a value that may be undefined, NaN or a function is a tagged record  *)
(*    [t |-> tag, v |-> integer];                                          *)
(*  - a plain object literal {} is the sequence of its own properties in   *)
(*    OwnPropertyKeys order (canonical array indices ascending, then       *)
(*    string keys in insertion order), read through Object.prototype.      *)
(***************************************************************************)
EXTENDS Integers, Sequences, FiniteSets, TLC

VARIABLES
  pc,        \* position of main(): loading, loaded, computed, done, failed, crashed
  stream,    \* state of the csv stream the handlers are attached to
  results,   \* const results = [] of loadCrashData
  promise,   \* the promise loadCrashData returns
  errLog,    \* what console.error received, in order
  failure,   \* the failure the underlying streams reported, if any
  stats,     \* the object computeStats returned, once it ran
  out,       \* what console.log received, in order
  nraw,      \* normalizer check: the raw cell value
  nval,      \* normalizer check: mapValues' result for a non-location header
  locA,      \* location check: the raw cell "A & B" (with whitespace added)
  locB,      \* location check: the raw cell "B & A" (with whitespace added)
  locNames,  \* location check: the two street names the raw cells were built of
  locObj,    \* location check: an intersection breakdown fed with both cells
  hours,     \* hour check: two raw HourofDay values
  buckets    \* hour check: the keys computeStats uses for them

vars == <<pc, stream, results, promise, errLog, failure, stats, out,
          nraw, nval, locA, locB, locNames, locObj, hours, buckets>>

pipeVars == <<pc, stream, results, promise, errLog, failure, stats, out>>
normVars == <<nraw, nval>>
locVars == <<locA, locB, locNames, locObj>>
hourVars == <<hours, buckets>>

-----------------------------------------------------------------------------
(* Bounds of the model *)

\* rows the csv stream delivers before it ends
MaxRows == 3
\* length of the raw cell values the normalizer is applied to
MaxLen == 3

-----------------------------------------------------------------------------
(* Program constants *)

CRASH_LOCATION_HEADER == "CrashLocation"

DAY_OF_WEEK_CONVERSION ==
  <<"Sunday", "Monday", "Tuesday", "Wednesday", "Thursday", "Friday", "Saturday">>

MONTH_CONVERSION ==
  <<"January", "February", "March", "April", "May", "June", "July", "August",
    "September", "October", "November", "December">>

\* .slice( 0, 10 )
TopN == 10

\* ( item.HourofDay + 4 ) % 24
HourShift == 4
HoursPerDay == 24

-----------------------------------------------------------------------------
(* JavaScript values *)

Undefined == [t |-> "undefined", v |-> 0]
NaN == [t |-> "NaN", v |-> 0]
Fn == [t |-> "function", v |-> 0]
Num(n) == [t |-> "number", v |-> n]

\* ToBoolean
Truthy(x) ==
  CASE x.t = "number" -> x.v # 0
    [] x.t = "function" -> TRUE
    [] OTHER -> FALSE

\* ToNumber
ToNumber(x) == IF x.t = "number" THEN x ELSE NaN

\* x + 1 on numbers
PlusOne(x) == IF x.t = "number" THEN Num(x.v + 1) ELSE NaN

\* String(x), as a template literal and a property key render it
ToStr(x) ==
  CASE x.t = "number" -> ToString(x.v)
    [] x.t = "NaN" -> "NaN"
    [] x.t = "undefined" -> "undefined"
    [] OTHER -> "function"

-----------------------------------------------------------------------------
(* Strings: code units and the order < and .sort() compare by *)

\* the characters of the model in ascending code-unit order
CodeUnits == "\t &+-.0123456789ABCDEFGHIJKLMNOPQRSTUVWXYZ_abcdefghijklmnopqrstuvwxyz"

CharAt(s, i) == SubSeq(s, i, i)

Code(c) == CHOOSE i \in 1..Len(CodeUnits) : CharAt(CodeUnits, i) = c

RECURSIVE StrLess(_, _)
\* a < b on strings
StrLess(a, b) ==
  IF Len(b) = 0 THEN FALSE
  ELSE IF Len(a) = 0 THEN TRUE
  ELSE IF CharAt(a, 1) = CharAt(b, 1) THEN StrLess(Tail(a), Tail(b))
  ELSE Code(CharAt(a, 1)) < Code(CharAt(b, 1))

\* _alphaSort( a, b ) < 0
AlphaLess(a, b) == StrLess(a, b)

-----------------------------------------------------------------------------
(* Plain objects *)

\* the property names every {} inherits from Object.prototype as functions
ObjectPrototypeKeys ==
  {"constructor", "toString", "toLocaleString", "valueOf", "hasOwnProperty",
   "isPrototypeOf", "propertyIsEnumerable"}

\* a canonical array index among the property names of the model
IsArrayIndex(k) == \E i \in 0..(HoursPerDay - 1) : ToString(i) = k
IndexOf(k) == CHOOSE i \in 0..(HoursPerDay - 1) : ToString(i) = k

EmptyObject == <<>>

Keys(o) == [i \in DOMAIN o |-> o[i].k]
HasOwn(o, k) == \E i \in DOMAIN o : o[i].k = k
OwnValue(o, k) == o[CHOOSE i \in DOMAIN o : o[i].k = k].v

\* o[k]: the own property, else the inherited one, else undefined
Get(o, k) ==
  IF HasOwn(o, k) THEN OwnValue(o, k)
  ELSE IF k \in ObjectPrototypeKeys THEN Fn
  ELSE Undefined

\* whether a new key k is listed before the own key j
KeyBefore(k, j) ==
  IF IsArrayIndex(k)
    THEN ~IsArrayIndex(j) \/ IndexOf(k) < IndexOf(j)
    ELSE FALSE

\* o[k] = v: an own property is overwritten in place; a new one is listed
\* among the array indices in ascending order, or else last
Put(o, k, v) ==
  IF HasOwn(o, k)
    THEN [i \in DOMAIN o |-> IF o[i].k = k THEN [k |-> k, v |-> v] ELSE o[i]]
    ELSE LET n == Cardinality({i \in DOMAIN o : ~KeyBefore(k, o[i].k)})
         IN  SubSeq(o, 1, n) \o <<[k |-> k, v |-> v]>> \o SubSeq(o, n + 1, Len(o))

\* Object.entries( o )
Entries(o) == o

RECURSIVE FromEntries(_)
\* Object.fromEntries( list )
FromEntries(list) ==
  IF list = <<>> THEN EmptyObject
  ELSE Put(FromEntries(SubSeq(list, 1, Len(list) - 1)),
           list[Len(list)].k, list[Len(list)].v)

\* _incrementSummation( obj, propertyName )
IncrementSummation(obj, propertyName) ==
  IF ~Truthy(Get(obj, propertyName))
    THEN Put(obj, propertyName, Num(1))
    ELSE Put(obj, propertyName, PlusOne(ToNumber(Get(obj, propertyName))))

-----------------------------------------------------------------------------
(* The rows the csv parser delivers (already passed through mapValues) *)

\* the yes/no columns computeStats counts, with the counter each one feeds
FlagCounters ==
  <<[flag |-> "PropertyDamageIndicator", counter |-> "includesPropertyDamage"],
    [flag |-> "AlcoholInvolved", counter |-> "includesAlcohol"],
    [flag |-> "AggressiveDriverInvolved", counter |-> "includesAggressiveDriver"],
    [flag |-> "BicycleInvolved", counter |-> "includesBicycle"],
    [flag |-> "CellPhoneInvolved", counter |-> "includesCellPhone"],
    [flag |-> "AnimalInvolved", counter |-> "includesAnimal"],
    [flag |-> "DrugInvolved", counter |-> "includesDrugs"]>>

AllFlags == {FlagCounters[i].flag : i \in DOMAIN FlagCounters}

\* A row. CrashDateandTime is the crash timestamp counted in months since
\* January 1970; `yes` is the set of flag columns whose cell read "yes".
Row(t, type, severity, dow, hour, location, yes) ==
  [CrashDateandTime |-> t, CrashType |-> type, CrashSeverity |-> severity,
   Dayoftheweek |-> dow, HourofDay |-> hour, CrashLocation |-> location,
   flags |-> [f \in AllFlags |-> f \in yes]]

\* The rows of the model. Every column takes several values, among them a
\* crash type named like a member of Object.prototype and a location that
\* reads as a canonical array index.
Rows ==
  {Row(14, "Angle", "Injury", 1, 4, "Elm St & Oak St", {"AlcoholInvolved"}),
   Row(2, "Angle", "Fatal", 1, 4, "Elm St & Oak St", {}),
   Row(25, "Head On", "Injury", 2, 3, "Main St & Oak St", AllFlags),
   Row(2, "constructor", "Injury", 7, 0, "5", {"PropertyDamageIndicator"}),
   Row(11, "Head On", "No Injury", 3, 23, "Ash St & Elm St",
       {"BicycleInvolved", "AnimalInvolved"}),
   Row(0, "Sideswipe", "Fatal", 5, 20, "Main St & Oak St",
       {"DrugInvolved", "CellPhoneInvolved", "AggressiveDriverInvolved"})}

-----------------------------------------------------------------------------
(* Array.prototype.sort and the comparators of the program *)

\* list.indexOf( x )
JsIndexOf(list, x) ==
  IF \E i \in DOMAIN list : list[i] = x
    THEN (CHOOSE i \in DOMAIN list : list[i] = x) - 1
    ELSE 0 - 1

\* ( a, b ) => b[ 1 ] - a[ 1 ]  is negative
CountGreater(a, b) == a.v.t = "number" /\ b.v.t = "number" /\ a.v.v > b.v.v

\* ( a, b ) => MONTH_CONVERSION.indexOf( a ) - MONTH_CONVERSION.indexOf( b )  is negative
MonthLess(a, b) == JsIndexOf(MONTH_CONVERSION, a) < JsIndexOf(MONTH_CONVERSION, b)

\* the same for DAY_OF_WEEK_CONVERSION
DayLess(a, b) == JsIndexOf(DAY_OF_WEEK_CONVERSION, a) < JsIndexOf(DAY_OF_WEEK_CONVERSION, b)

\* whether the comparator named sortFunction puts a before b: "default" is
\* .sort() without a comparator, which compares strings by code units, and
\* "none" is no sort at all
SortsBefore(sortFunction, a, b) ==
  CASE sortFunction = "default" -> StrLess(a, b)
    [] sortFunction = "_alphaSort" -> AlphaLess(a, b)
    [] sortFunction = "count" -> CountGreater(a, b)
    [] sortFunction = "month" -> MonthLess(a, b)
    [] sortFunction = "dayOfWeek" -> DayLess(a, b)
    [] sortFunction = "none" -> FALSE

\* Array.prototype.sort with a consistent comparator: a stable sort, in which
\* s[i] ends up after the elements that are less and the equal ones before it
SortWith(s, sortFunction) ==
  LET rank(i) ==
        Cardinality({j \in DOMAIN s :
                       \/ SortsBefore(sortFunction, s[j], s[i])
                       \/ (~SortsBefore(sortFunction, s[i], s[j]) /\ j < i)}) + 1
  IN  [p \in DOMAIN s |-> s[CHOOSE i \in DOMAIN s : rank(i) = p]]

-----------------------------------------------------------------------------
(* computeStats *)

\* new Date( t ).getMonth()
GetMonth(t) == t % Len(MONTH_CONVERSION)

\* MONTH_CONVERSION[ new Date( item.CrashDateandTime ).getMonth() ], as a key
MonthKey(item) == MONTH_CONVERSION[GetMonth(item.CrashDateandTime) + 1]

\* DAY_OF_WEEK_CONVERSION[ item.Dayoftheweek - 1 ], as a key
DayOfWeekKey(item) ==
  IF item.Dayoftheweek \in DOMAIN DAY_OF_WEEK_CONVERSION
    THEN DAY_OF_WEEK_CONVERSION[item.Dayoftheweek]
    ELSE "undefined"

\* HourBucket without the shift: a faulty variant C2 must tell from the code
HourBucketNoShift(hourOfDay) == hourOfDay % HoursPerDay

\* ( item.HourofDay + 4 ) % 24
HourBucket(hourOfDay) == (hourOfDay + HourShift) % HoursPerDay

\* the stats object before the loop
InitialStats(data) ==
  [totalCrashes |-> Len(data),
   earliestCrashDate |-> Undefined,
   latestCrashDate |-> Undefined,
   breakdowns |-> [dayOfWeek |-> EmptyObject, hour |-> EmptyObject,
                   intersection |-> EmptyObject, month |-> EmptyObject,
                   type |-> EmptyObject, severity |-> EmptyObject,
                   intersectionTop10 |-> Undefined],
   counters |-> EmptyObject]

\* Earliest without the comparison: a faulty variant C8 must tell from the code
EarliestNoCompare(cur, crashDate) ==
  IF ~(cur.t = "number") THEN crashDate ELSE cur

\* if ( !stats.earliestCrashDate || crashDate < stats.earliestCrashDate )
Earliest(cur, crashDate) ==
  IF ~(cur.t = "number") \/ crashDate.v < cur.v THEN crashDate ELSE cur

\* if ( !stats.latestCrashDate || crashDate > stats.latestCrashDate )
Latest(cur, crashDate) ==
  IF ~(cur.t = "number") \/ crashDate.v > cur.v THEN crashDate ELSE cur

RECURSIVE CountFlags(_, _, _)
\* the seven  if ( item.X === true ) _incrementSummation( stats, 'includesX' )
CountFlags(counters, item, i) ==
  IF i > Len(FlagCounters) THEN counters
  ELSE CountFlags(IF item.flags[FlagCounters[i].flag]
                    THEN IncrementSummation(counters, FlagCounters[i].counter)
                    ELSE counters,
                  item, i + 1)

\* one turn of  for ( const item of data )
AddItem(st, item) ==
  LET crashDate == Num(item.CrashDateandTime)
      b == st.breakdowns
  IN  [st EXCEPT
         !.earliestCrashDate = Earliest(@, crashDate),
         !.latestCrashDate = Latest(@, crashDate),
         !.breakdowns =
           [b EXCEPT
              !.type = IncrementSummation(@, item.CrashType),
              !.severity = IncrementSummation(@, item.CrashSeverity),
              !.month = IncrementSummation(@, MonthKey(item)),
              !.dayOfWeek = IncrementSummation(@, DayOfWeekKey(item)),
              !.hour = IncrementSummation(@, ToString(HourBucket(item.HourofDay))),
              !.intersection = IncrementSummation(@, item.CrashLocation)],
         !.counters = CountFlags(@, item, 1)]

RECURSIVE Aggregate(_, _)
Aggregate(st, data) ==
  IF data = <<>> THEN st ELSE Aggregate(AddItem(st, Head(data)), Tail(data))

\* .slice( 0, n )
Slice(s, n) == SubSeq(s, 1, IF Len(s) < n THEN Len(s) ELSE n)

\* Object.fromEntries( Object.entries( intersection ).sort( ... ).slice( 0, 10 ) )
Top10(intersection) ==
  FromEntries(Slice(SortWith(Entries(intersection), "count"), TopN))

\* computeStats( data )
ComputeStats(data) ==
  LET st == Aggregate(InitialStats(data), data)
  IN  [st EXCEPT !.breakdowns.intersectionTop10 = Top10(st.breakdowns.intersection)]

-----------------------------------------------------------------------------
(* displayStats *)

\* _logConsoleLineDivider()
Divider == "================================================================"

\* the fraction digits of a number of hundredths, at most two, none trailing
FractionDigits(h) ==
  LET f == h % 100
  IN  IF f = 0 THEN ""
      ELSE IF f % 10 = 0 THEN "." \o ToString(f \div 10)
      ELSE IF f < 10 THEN ".0" \o ToString(f)
      ELSE "." \o ToString(f)

\* _convertToPercentString( value, total ): 100.0 * value / total rounded to
\* hundredths; NaN when value is no number or 0 is divided by 0
ConvertToPercentString(value, total) ==
  IF value.t # "number" \/ (total = 0 /\ value.v = 0) THEN "NaN%"
  ELSE IF total = 0 THEN "Infinity%"
  ELSE LET h == (20000 * value.v + total) \div (2 * total)
       IN  ToString(h \div 100) \o FractionDigits(h) \o "%"

\* what _logConsoleStat( title, value, totalCrashes ) prints
LogConsoleStat(title, value, totalCrashes) ==
  title \o " - " \o ToStr(value) \o " ("
    \o ConvertToPercentString(value, totalCrashes) \o ")"

\* what _logConsoleBreakdown( title, breakdown, totalCrashes, sortFunction )
\* prints; "none" stands for a call without sortFunction
LogConsoleBreakdown(title, breakdown, totalCrashes, sortFunction) ==
  LET orderedProps == SortWith(Keys(breakdown), sortFunction)
  IN  <<title>> \o
      [i \in DOMAIN orderedProps |->
         LogConsoleStat("\t" \o orderedProps[i], Get(breakdown, orderedProps[i]),
                        totalCrashes)]

\* date.toLocaleDateString( 'en-US', { year, month: 'short', day } ) of a
\* timestamp, which the model keeps by the month
FormatDate(d) ==
  SubSeq(MONTH_CONVERSION[GetMonth(d.v) + 1], 1, 3) \o " 1, "
    \o ToString(1970 + d.v \div Len(MONTH_CONVERSION))

\* the titles and counters of the By Misc section, in the order printed
MiscStats ==
  <<[title |-> "\tAggressive Driving", counter |-> "includesAggressiveDriver"],
    [title |-> "\tInvolved Alcohol ", counter |-> "includesAlcohol"],
    [title |-> "\tInvolved Cell Phone ", counter |-> "includesCellPhone"],
    [title |-> "\tInvolved Drugs ", counter |-> "includesDrugs"],
    [title |-> "\tProperty Damage", counter |-> "includesPropertyDamage"],
    [title |-> "\tWith Animal", counter |-> "includesAnimal"],
    [title |-> "\tWith Cyclist", counter |-> "includesBicycle"]>>

\* the line of the By Misc section for MiscStats[i]
MiscLine(st, i) ==
  LogConsoleStat(MiscStats[i].title, Get(st.counters, MiscStats[i].counter),
                 st.totalCrashes)

\* whether displayStats throws: stats.earliestCrashDate.toLocaleDateString
\* (or latestCrashDate's) is read of undefined
DisplayThrows(st) ==
  st.earliestCrashDate.t = "undefined" \/ st.latestCrashDate.t = "undefined"

\* the lines displayStats( stats ) prints when it does not throw
Report(st) ==
  LET b == st.breakdowns
      n == st.totalCrashes
  IN  <<Divider,
        "Disclaimer:",
        "This analysis provides crash information for Grand Rapids between "
          \o FormatDate(st.earliestCrashDate) \o " and "
          \o FormatDate(st.latestCrashDate) \o ".",
        "Data is sourced from the City of Grand Rapids, provided at "
          \o "https://www.grandrapidsmi.gov/GRData/Police-Data. Data is not updated "
          \o "live, but stored in a local file which is manually downloaded.",
        Divider,
        "Total Crashes: " \o ToString(n),
        Divider>>
      \o LogConsoleBreakdown("Most Dangerous Intersections:", b.intersectionTop10, n, "_alphaSort")
      \o <<Divider>>
      \o LogConsoleBreakdown("By Type:", b.type, n, "_alphaSort")
      \o <<Divider>>
      \o LogConsoleBreakdown("By Severity:", b.severity, n, "_alphaSort")
      \o <<Divider>>
      \o LogConsoleBreakdown("By Month:", b.month, n, "month")
      \o <<Divider>>
      \o LogConsoleBreakdown("By Day of Week:", b.dayOfWeek, n, "dayOfWeek")
      \o <<Divider>>
      \o LogConsoleBreakdown("By Hour:", b.hour, n, "none")
      \o <<Divider, "By Misc:">>
      \o [i \in DOMAIN MiscStats |-> MiscLine(st, i)]

-----------------------------------------------------------------------------
(* loadCrashData and main *)

\* the errors the streams of the model report
ReadErrors == {"ENOENT: no such file or directory"}
DecodeErrors == {"RangeError: Row exceeds the maximum size", "Error: Invalid row"}
EndErrors == {"Error: Unexpected end of input"}

NoFailure == [phase |-> "none", err |-> ""]

PendingPromise == [state |-> "pending", value |-> <<>>, reason |-> ""]

\* resolve( value ): settles a pending promise, and does nothing to a settled one
Resolve(p, value) ==
  IF p.state = "pending" THEN [p EXCEPT !.state = "resolved", !.value = value] ELSE p

\* reject( err ): settles a pending promise, and does nothing to a settled one
Reject(p, err) ==
  IF p.state = "pending" THEN [p EXCEPT !.state = "rejected", !.reason = err] ELSE p

\* the contextMessage of the three .on( 'error', ... ) handlers, in the order
\* they are registered on the csv stream
ErrorHandlers ==
  <<"Error thrown parsing CSV.",
    "Error thrown during data results aggregation.",
    "Error thrown during stream end resolution.">>

\* _rejectPromiseError( reject, err, contextMessage ) on the log and the promise
RejectPromiseError(s, err, contextMessage) ==
  [errLog |-> Append(s.errLog, <<err>>), promise |-> Reject(s.promise, err)]

RECURSIVE EmitError(_, _, _)
\* the csv stream emits 'error': its listeners run in the order registered
EmitError(s, err, i) ==
  IF i > Len(ErrorHandlers) THEN s
  ELSE EmitError(RejectPromiseError(s, err, ErrorHandlers[i]), err, i + 1)

\* the variables of the other specifications of this module
PipeFrame == UNCHANGED <<normVars, locVars, hourVars>>

PipeInit ==
  /\ pc = "loading"
  /\ stream = "open"
  /\ results = <<>>
  /\ promise = PendingPromise
  /\ errLog = <<>>
  /\ failure = NoFailure
  /\ stats = Undefined
  /\ out = <<>>

\* .on( 'data', data => results.push( data ) )
OnData ==
  /\ pc = "loading" /\ stream = "open"
  /\ Len(results) < MaxRows
  /\ \E row \in Rows : results' = Append(results, row)
  /\ UNCHANGED <<pc, stream, promise, errLog, failure, stats, out>>
  /\ PipeFrame

\* .on( 'end', () => resolve( results ) )
OnEnd ==
  /\ pc = "loading" /\ stream = "open"
  /\ stream' = "ended"
  /\ promise' = Resolve(promise, results)
  /\ UNCHANGED <<pc, results, errLog, failure, stats, out>>
  /\ PipeFrame

\* the log and the promise after the csv stream has emitted 'error' with err
\* to its three handlers
AfterError(err) == EmitError([errLog |-> errLog, promise |-> promise], err, 1)

\* A row cannot be decoded: the csv stream emits 'error' and is destroyed, so
\* that neither 'data' nor 'end' follows.
RowDecodeError ==
  /\ pc = "loading" /\ stream = "open"
  /\ \E err \in DecodeErrors :
       /\ errLog' = AfterError(err).errLog
       /\ promise' = AfterError(err).promise
       /\ failure' = [phase |-> "decode", err |-> err]
  /\ stream' = "errored"
  /\ UNCHANGED <<pc, results, stats, out>>
  /\ PipeFrame

\* The csv stream fails while it is flushed at the end of the input: it emits
\* 'error' in place of 'end'.
StreamEndError ==
  /\ pc = "loading" /\ stream = "open"
  /\ \E err \in EndErrors :
       /\ errLog' = AfterError(err).errLog
       /\ promise' = AfterError(err).promise
       /\ failure' = [phase |-> "end", err |-> err]
  /\ stream' = "errored"
  /\ UNCHANGED <<pc, results, stats, out>>
  /\ PipeFrame

\* The file cannot be opened or read. createReadStream( fileName ) emits
\* 'error'; .pipe() forwards data and end to the csv stream, not errors, and
\* every .on( 'error' ) of loadCrashData is registered on what .pipe()
\* returns, the csv stream. An 'error' event without a listener is thrown, and
\* the uncaught exception ends the process.
ReadStreamError ==
  /\ pc = "loading" /\ stream = "open"
  /\ \E err \in ReadErrors : failure' = [phase |-> "read", err |-> err]
  /\ stream' = "dead"
  /\ pc' = "crashed"
  /\ UNCHANGED <<results, promise, errLog, stats, out>>
  /\ PipeFrame

\* const data = await loadCrashData( ... ) throws: main() and the top-level
\* await main() reject, and the process exits with a failure
MainRejected ==
  /\ pc = "loading" /\ promise.state = "rejected"
  /\ pc' = "failed"
  /\ UNCHANGED <<stream, results, promise, errLog, failure, stats, out>>
  /\ PipeFrame

\* const stats = computeStats( data )
MainComputeStats ==
  /\ pc = "loading" /\ promise.state = "resolved"
  /\ stats' = ComputeStats(promise.value)
  /\ pc' = "computed"
  /\ UNCHANGED <<stream, results, promise, errLog, failure, out>>
  /\ PipeFrame

\* displayStats( stats ): prints the report, or throws a TypeError after the
\* first divider, which ends the process with a failure
MainDisplayStats ==
  /\ pc = "computed"
  /\ IF DisplayThrows(stats)
       THEN out' = <<Divider>> /\ pc' = "crashed"
       ELSE out' = Report(stats) /\ pc' = "done"
  /\ UNCHANGED <<stream, results, promise, errLog, failure, stats>>
  /\ PipeFrame

Init ==
  /\ PipeInit
  /\ nraw = "" /\ nval = Undefined
  /\ locA = "" /\ locB = "" /\ locNames = <<>> /\ locObj = EmptyObject
  /\ hours = <<>> /\ buckets = <<>>

Next ==
  \/ OnData
  \/ OnEnd
  \/ RowDecodeError
  \/ StreamEndError
  \/ ReadStreamError
  \/ MainRejected
  \/ MainComputeStats
  \/ MainDisplayStats

Spec == Init /\ [][Next]_vars

-----------------------------------------------------------------------------
(* mapValues: the value normalizer handed to the csv parser *)

Bool(b) == [t |-> "boolean", v |-> IF b THEN 1 ELSE 0]
Str(s) == [t |-> "string", s |-> s]
\* the number n * 10^e, with n not a multiple of 10 unless it is 0
Dec(n, e) == [t |-> "number", v |-> n, e |-> e]
Infinite(sign) == [t |-> "number", v |-> sign, infinite |-> TRUE]

UpperCase == "ABCDEFGHIJKLMNOPQRSTUVWXYZ"
LowerCase == "abcdefghijklmnopqrstuvwxyz"
Digits == "0123456789abcdef"

Has(set, c) == \E i \in 1..Len(set) : CharAt(set, i) = c
Pos(set, c) == CHOOSE i \in 1..Len(set) : CharAt(set, i) = c

RECURSIVE ToLowerCase(_)
\* value.toLowerCase()
ToLowerCase(s) ==
  IF s = "" THEN ""
  ELSE LET c == CharAt(s, 1)
       IN  (IF Has(UpperCase, c) THEN CharAt(LowerCase, Pos(UpperCase, c)) ELSE c)
             \o ToLowerCase(Tail(s))

\* \s, among the characters of the model
IsWhiteSpace(c) == c = " " \/ c = "\t"

RECURSIVE TrimStart(_)
TrimStart(s) ==
  IF s # "" /\ IsWhiteSpace(CharAt(s, 1)) THEN TrimStart(Tail(s)) ELSE s

RECURSIVE TrimEnd(_)
TrimEnd(s) ==
  IF s # "" /\ IsWhiteSpace(CharAt(s, Len(s)))
    THEN TrimEnd(SubSeq(s, 1, Len(s) - 1))
    ELSE s

\* s.trim()
Trim(s) == TrimEnd(TrimStart(s))

\* a digit of the given radix (the lower-case letters count as their upper case)
IsDigitOf(radix, c) == Has(Digits, ToLowerCase(c)) /\ Pos(Digits, ToLowerCase(c)) <= radix

\* DecimalDigits: one or more decimal digits
IsDigits(radix, s) == s # "" /\ \A i \in 1..Len(s) : IsDigitOf(radix, CharAt(s, i))

IsSign(c) == c = "+" \/ c = "-"

\* DecimalDigits . DecimalDigits(opt)  |  . DecimalDigits  |  DecimalDigits
IsMantissa(m) ==
  \/ IsDigits(10, m)
  \/ \E i \in 1..Len(m) :
       /\ CharAt(m, i) = "."
       /\ LET int == SubSeq(m, 1, i - 1)
              frac == SubSeq(m, i + 1, Len(m))
          IN  /\ int = "" \/ IsDigits(10, int)
              /\ frac = "" \/ IsDigits(10, frac)
              /\ int # "" \/ frac # ""

\* ExponentPart: e or E, a sign (opt), DecimalDigits
IsExponentPart(x) ==
  /\ Len(x) >= 2
  /\ ToLowerCase(CharAt(x, 1)) = "e"
  /\ \/ IsDigits(10, Tail(x))
     \/ IsSign(CharAt(x, 2)) /\ IsDigits(10, SubSeq(x, 3, Len(x)))

\* StrUnsignedDecimalLiteral
IsUnsignedDecimalLiteral(s) ==
  \/ s = "Infinity"
  \/ \E i \in 1..Len(s) :
       /\ IsMantissa(SubSeq(s, 1, i))
       /\ i = Len(s) \/ IsExponentPart(SubSeq(s, i + 1, Len(s)))

\* StrDecimalLiteral: a sign (opt), StrUnsignedDecimalLiteral
IsDecimalLiteral(s) ==
  \/ IsUnsignedDecimalLiteral(s)
  \/ s # "" /\ IsSign(CharAt(s, 1)) /\ IsUnsignedDecimalLiteral(Tail(s))

\* the radix a NonDecimalIntegerLiteral prefix announces, 0 if none
RadixOf(c) ==
  CASE ToLowerCase(c) = "x" -> 16
    [] ToLowerCase(c) = "o" -> 8
    [] ToLowerCase(c) = "b" -> 2
    [] OTHER -> 0

\* NonDecimalIntegerLiteral: 0x, 0o or 0b and digits of that radix
IsNonDecimalLiteral(s) ==
  /\ Len(s) >= 3
  /\ CharAt(s, 1) = "0"
  /\ RadixOf(CharAt(s, 2)) # 0
  /\ IsDigits(RadixOf(CharAt(s, 2)), SubSeq(s, 3, Len(s)))

\* isNaN( str ): Number( str ) is NaN unless str, with the white space around
\* it dropped, is empty or a StrNumericLiteral
IsNaNOfString(str) ==
  LET t == Trim(str)
  IN  ~(t = "" \/ IsDecimalLiteral(t) \/ IsNonDecimalLiteral(t))

\* the longest prefix of t that is a StrDecimalLiteral, "" if there is none
DecimalPrefix(t) ==
  LET ends == {i \in 1..Len(t) : IsDecimalLiteral(SubSeq(t, 1, i))}
  IN  IF ends = {} THEN ""
      ELSE SubSeq(t, 1, CHOOSE i \in ends : \A j \in ends : j <= i)

\* isNaN( parseFloat( str ) )
IsNaNOfParseFloat(str) == DecimalPrefix(TrimStart(str)) = ""

\* _isNumeric by parseFloat alone: a faulty variant C9 must tell from the code
IsNumericParseFloatOnly(str) == ~IsNaNOfParseFloat(str)

\* _isNumeric( str ), for a string
IsNumeric(str) == ~IsNaNOfString(str) /\ ~IsNaNOfParseFloat(str)

RECURSIVE DigitsValue(_, _)
\* the value of a run of digits of the radix, 0 for the empty run
DigitsValue(radix, s) ==
  IF s = "" THEN 0
  ELSE DigitsValue(radix, SubSeq(s, 1, Len(s) - 1)) * radix
         + (Pos(Digits, ToLowerCase(CharAt(s, Len(s)))) - 1)

RECURSIVE Normal(_, _)
\* n * 10^e with the trailing zeros of n moved into e
Normal(n, e) ==
  IF n = 0 THEN Dec(0, 0)
  ELSE IF n % 10 = 0 THEN Normal(n \div 10, e + 1)
  ELSE Dec(n, e)

\* the value of a StrUnsignedDecimalLiteral other than Infinity, times sign
DecimalValue(sign, s) ==
  LET eAt == {i \in 1..Len(s) : ToLowerCase(CharAt(s, i)) = "e"}
      mEnd == IF eAt = {} THEN Len(s) ELSE (CHOOSE i \in eAt : TRUE) - 1
      m == SubSeq(s, 1, mEnd)
      x == SubSeq(s, mEnd + 2, Len(s))
      dot == {i \in 1..Len(m) : CharAt(m, i) = "."}
      int == IF dot = {} THEN m ELSE SubSeq(m, 1, (CHOOSE i \in dot : TRUE) - 1)
      frac == IF dot = {} THEN "" ELSE SubSeq(m, (CHOOSE i \in dot : TRUE) + 1, Len(m))
      exp == IF x = "" THEN 0
             ELSE IF CharAt(x, 1) = "-" THEN 0 - DigitsValue(10, Tail(x))
             ELSE IF CharAt(x, 1) = "+" THEN DigitsValue(10, Tail(x))
             ELSE DigitsValue(10, x)
  IN  Normal(sign * DigitsValue(10, int \o frac), exp - Len(frac))

\* +value
ToNumberOfString(str) ==
  LET t == Trim(str)
      sign == IF t # "" /\ CharAt(t, 1) = "-" THEN 0 - 1 ELSE 1
      u == IF t # "" /\ IsSign(CharAt(t, 1)) THEN Tail(t) ELSE t
  IN  IF IsNaNOfString(str) THEN NaN
      ELSE IF t = "" THEN Dec(0, 0)
      ELSE IF IsNonDecimalLiteral(t)
        THEN Normal(DigitsValue(RadixOf(CharAt(t, 2)), SubSeq(t, 3, Len(t))), 0)
      ELSE IF u = "Infinity" THEN Infinite(sign)
      ELSE DecimalValue(sign, u)

RECURSIVE CollapseWhiteSpace(_)
\* value.replace( /\s\s+/g, ' ' ): every run of two or more white-space
\* characters becomes one space
CollapseWhiteSpace(s) ==
  IF s = "" THEN ""
  ELSE IF Len(s) >= 2 /\ IsWhiteSpace(CharAt(s, 1)) /\ IsWhiteSpace(CharAt(s, 2))
    THEN " " \o CollapseWhiteSpace(TrimStart(s))
  ELSE CharAt(s, 1) \o CollapseWhiteSpace(Tail(s))

RECURSIVE Split(_, _)
\* s.split( sep ), for a separator that is not empty
Split(s, sep) ==
  LET at == {i \in 1..(Len(s) - Len(sep) + 1) : SubSeq(s, i, i + Len(sep) - 1) = sep}
  IN  IF at = {} THEN <<s>>
      ELSE LET i == CHOOSE j \in at : \A k \in at : j <= k
           IN  <<SubSeq(s, 1, i - 1)>> \o Split(SubSeq(s, i + Len(sep), Len(s)), sep)

RECURSIVE Join(_, _)
\* list.join( sep )
Join(list, sep) ==
  IF list = <<>> THEN ""
  ELSE IF Len(list) = 1 THEN list[1]
  ELSE list[1] \o sep \o Join(Tail(list), sep)

\* LocationKey without .sort(): a faulty variant C10 must tell from the code
LocationKeyNoSort(value) ==
  Join(Split(Trim(CollapseWhiteSpace(value)), " & "), " & ")

\* value.replace( /\s\s+/g, ' ' ).trim().split( ' & ' ).sort().join( ' & ' )
LocationKey(value) ==
  Join(SortWith(Split(Trim(CollapseWhiteSpace(value)), " & "), "default"), " & ")

\* mapValues: ( { header, index, value } ) => ...
MapValues(header, value) ==
  IF header = CRASH_LOCATION_HEADER THEN Str(LocationKey(value))
  ELSE IF ToLowerCase(value) = "yes" THEN Bool(TRUE)
  ELSE IF ToLowerCase(value) = "no" THEN Bool(FALSE)
  ELSE IF IsNumeric(value) THEN ToNumberOfString(value)
  ELSE Str(value)

-----------------------------------------------------------------------------
(* The normalizer applied to one cell of a column other than CrashLocation *)

NonLocationHeaders == {"AlcoholInvolved", "HourofDay"}

\* the characters the raw cells of the model are made of
CellAlphabet ==
  {"0", "1", ".", "-", "+", " ", "e", "x", "y", "Y", "s", "n", "N", "o"}

RECURSIVE CellsUpTo(_)
\* the strings of at most n characters of CellAlphabet
CellsUpTo(n) ==
  IF n = 0 THEN {""}
  ELSE CellsUpTo(n - 1) \cup {s \o c : s \in CellsUpTo(n - 1), c \in CellAlphabet}

NormInit ==
  /\ PipeInit
  /\ nraw \in [header : NonLocationHeaders, value : CellsUpTo(MaxLen)]
  /\ nval = Undefined
  /\ locA = "" /\ locB = "" /\ locNames = <<>> /\ locObj = EmptyObject
  /\ hours = <<>> /\ buckets = <<>>

\* the csv parser calls mapValues on the cell
NormalizeCell ==
  /\ nval = Undefined
  /\ nval' = MapValues(nraw.header, nraw.value)
  /\ UNCHANGED <<pipeVars, nraw, locVars, hourVars>>

NormNext == NormalizeCell

SpecNorm == NormInit /\ [][NormNext]_vars

-----------------------------------------------------------------------------
(* The normalizer applied to the two spellings of one intersection *)

\* street names, as their words
StreetNames == {<<"Elm", "St">>, <<"Oak", "St">>, <<"elm", "St">>, <<"Ash">>}

\* white space before and after a cell
Pads == {"", " ", "\t", "  "}

\* what stands for one space: the space, or a run of white space
Gaps == {" ", "  ", "\t "}

WhiteSpacings == [lead : Pads, gap1 : Gaps, gap2 : Gaps, trail : Pads, inner : Gaps]

\* the cell "a & b" with the white space w
Cell(a, b, w) ==
  w.lead \o Join(a, w.inner) \o w.gap1 \o "&" \o w.gap2 \o Join(b, w.inner) \o w.trail

Mirrored(w) ==
  [lead |-> w.trail, gap1 |-> w.gap2, gap2 |-> w.gap1, trail |-> w.lead, inner |-> w.inner]

LocInit ==
  /\ PipeInit
  /\ nraw = "" /\ nval = Undefined
  /\ \E a \in StreetNames, b \in StreetNames, w \in WhiteSpacings :
       /\ locNames = <<Join(a, " "), Join(b, " ")>>
       /\ locA = Cell(a, b, w)
       /\ locB = Cell(b, a, Mirrored(w))
  /\ locObj = EmptyObject
  /\ hours = <<>> /\ buckets = <<>>

\* two rows with the cells locA and locB are read (mapValues) and counted
\* (_incrementSummation( stats.breakdowns.intersection, item.CrashLocation ))
CountLocations ==
  /\ locObj = EmptyObject
  /\ locObj' = IncrementSummation(
                 IncrementSummation(EmptyObject,
                                    MapValues(CRASH_LOCATION_HEADER, locA).s),
                 MapValues(CRASH_LOCATION_HEADER, locB).s)
  /\ UNCHANGED <<pipeVars, normVars, locA, locB, locNames, hourVars>>

LocNext == CountLocations

SpecLoc == LocInit /\ [][LocNext]_vars

-----------------------------------------------------------------------------
(* The hour key of two records *)

HourInit ==
  /\ PipeInit
  /\ nraw = "" /\ nval = Undefined
  /\ locA = "" /\ locB = "" /\ locNames = <<>> /\ locObj = EmptyObject
  /\ hours \in (0..(HoursPerDay - 1)) \X (0..(HoursPerDay - 1))
  /\ buckets = <<>>

\* computeStats derives the key of the hour breakdown for both records
ComputeHourBuckets ==
  /\ buckets = <<>>
  /\ buckets' = <<HourBucket(hours[1]), HourBucket(hours[2])>>
  /\ UNCHANGED <<pipeVars, normVars, locVars, hours>>

HourNext == ComputeHourBuckets

SpecHour == HourInit /\ [][HourNext]_vars

-----------------------------------------------------------------------------
(* Properties of the run: load, computeStats, displayStats *)

Dimensions == {"type", "severity", "month", "dayOfWeek", "hour", "intersection"}

\* computeStats has run, on the records the load resolved with
Computed == pc \in {"computed", "done"} \/ (pc = "crashed" /\ stats # Undefined)

RECURSIVE SumValues(_)
\* the sum of the values of o, NaN if one of them is NaN
SumValues(o) ==
  IF o = <<>> THEN Num(0)
  ELSE LET rest == SumValues(Tail(o))
       IN  IF Head(o).v.t = "number" /\ rest.t = "number"
             THEN Num(Head(o).v.v + rest.v)
             ELSE NaN

\* C1: for a non-empty record sequence, in each of the six breakdowns the
\* counts sum to totalCrashes, which is the number of records.
C1_BreakdownsSumToTotal ==
  (Computed /\ results # <<>>) =>
    /\ stats.totalCrashes = Len(results)
    /\ \A d \in Dimensions : SumValues(stats.breakdowns[d]) = Num(stats.totalCrashes)

\* the place of key k among the own keys of o
Place(o, k) == CHOOSE i \in DOMAIN o : o[i].k = k

Min(a, b) == IF a < b THEN a ELSE b

\* C7: intersectionTop10 holds min(10, distinct intersections) entries, each
\* an entry of the intersection breakdown with the same count, in descending
\* order of count with ties in the breakdown's order, and no intersection
\* left out counts more than one included.
C7_Top10IsSortedPrefix ==
  Computed =>
    LET all == stats.breakdowns.intersection
        top == stats.breakdowns.intersectionTop10
    IN  /\ Len(top) = Min(TopN, Len(all))
        /\ \A i \in DOMAIN top : HasOwn(all, top[i].k) /\ OwnValue(all, top[i].k) = top[i].v
        /\ \A i, j \in DOMAIN top :
             i < j => \/ top[i].v.v > top[j].v.v
                      \/ /\ top[i].v.v = top[j].v.v
                         /\ Place(all, top[i].k) < Place(all, top[j].k)
        /\ \A i \in DOMAIN all : \A j \in DOMAIN top :
             ~HasOwn(top, all[i].k) => all[i].v.v <= top[j].v.v

SectionTitles ==
  <<"Disclaimer:", "Most Dangerous Intersections:", "By Type:", "By Severity:",
    "By Month:", "By Day of Week:", "By Hour:", "By Misc:">>

FullReport ==
  /\ \A i \in DOMAIN SectionTitles : \E j \in DOMAIN out : out[j] = SectionTitles[i]
  /\ \E j \in DOMAIN out : out[j] = "Total Crashes: " \o ToString(Len(results))
  /\ \A i \in DOMAIN MiscStats : \E j \in DOMAIN out : out[j] = MiscLine(stats, i)

\* C3: whenever the load succeeds, also with zero rows, the run computes the
\* statistics, prints the full report and finishes without a failure.
C3_SuccessfulLoadPrintsReport ==
  (promise.state = "resolved" /\ pc \notin {"loading", "computed"}) =>
    (pc = "done" /\ FullReport)

\* C4: whenever a stream reports a failure, in any of the three phases, the
\* error is logged, the promise is rejected with that error and not resolved,
\* and neither computeStats nor displayStats runs.
C4_EveryFailureIsLoggedAndRejects ==
  failure.phase # "none" =>
    /\ errLog # <<>>
    /\ \A i \in DOMAIN errLog : errLog[i][1] = failure.err
    /\ promise.state = "rejected" /\ promise.reason = failure.err
    /\ stats = Undefined /\ out = <<>>

\* the context that names the phase a failure occurred in
PhaseContext(phase) ==
  CASE phase = "read" -> ErrorHandlers[1]
    [] phase = "decode" -> ErrorHandlers[2]
    [] phase = "end" -> ErrorHandlers[3]

\* C5: the log entry made for a failed load carries the context of the phase
\* that failed, and of that phase only.
C5_LoggedErrorCarriesPhaseContext ==
  \A i \in DOMAIN errLog :
    /\ \E j \in DOMAIN errLog[i] : errLog[i][j] = PhaseContext(failure.phase)
    /\ \A j \in DOMAIN errLog[i] : \A h \in DOMAIN ErrorHandlers :
         errLog[i][j] = ErrorHandlers[h] => ErrorHandlers[h] = PhaseContext(failure.phase)

\* the number of records whose flag column is true
FlagCount(flag) == Cardinality({i \in DOMAIN results : results[i].flags[flag]})

FlagOf(counter) ==
  FlagCounters[CHOOSE i \in DOMAIN FlagCounters : FlagCounters[i].counter = counter].flag

\* C6: the misc section prints each of the seven counters against
\* totalCrashes, and a counter absent from the statistics as 0.
C6_MiscPrintsAbsentCounterAsZero ==
  pc = "done" =>
    \A i \in DOMAIN MiscStats :
      \E j \in DOMAIN out :
        out[j] = LogConsoleStat(MiscStats[i].title,
                                Num(FlagCount(FlagOf(MiscStats[i].counter))),
                                Len(results))

-----------------------------------------------------------------------------
(* Properties of the hour key *)

HourRange == 0..(HoursPerDay - 1)

\* the hour key is one-to-one and onto 0..23
HourBucketIsBijection ==
  /\ \A i \in DOMAIN buckets : buckets[i] \in HourRange
  /\ hours[1] # hours[2] => buckets[1] # buckets[2]
  /\ \A b \in HourRange : \E h \in HourRange : HourBucket(h) = b

\* C2, as claimed: the hour key is a bijection on 0..23 that takes raw hour 4
\* to bucket 0, raw hour 3 to bucket 23 and raw hour 0 to bucket 4.
C2_AsClaimed ==
  buckets # <<>> =>
    /\ HourBucketIsBijection
    /\ \A i \in DOMAIN hours :
         /\ hours[i] = 4 => buckets[i] = 0
         /\ hours[i] = 3 => buckets[i] = 23
         /\ hours[i] = 0 => buckets[i] = 4

\* C2, amended: the hour key is a bijection on 0..23 that takes raw hour 4 to
\* bucket 8, raw hour 3 to bucket 7 and raw hour 0 to bucket 4 (bucket 0 is
\* raw hour 20 and bucket 23 is raw hour 19).
C2_HourBucketShiftsForward ==
  buckets # <<>> =>
    /\ HourBucketIsBijection
    /\ \A i \in DOMAIN hours :
         /\ hours[i] = 4 => buckets[i] = 8
         /\ hours[i] = 3 => buckets[i] = 7
         /\ hours[i] = 0 => buckets[i] = 4
         /\ hours[i] = 20 <=> buckets[i] = 0
         /\ hours[i] = 19 <=> buckets[i] = 23

\* the keys of raw hours 4 and 3 have been computed
C2_Witness == hours = <<4, 3>> /\ buckets = <<8, 7>>

-----------------------------------------------------------------------------
(* Properties of the normalizer *)

CountOf(s, c) == Cardinality({i \in 1..Len(s) : CharAt(s, i) = c})

AllIn(s, set) == \A i \in 1..Len(s) : Has(set, CharAt(s, i))

Unsigned(s) == IF s # "" /\ (CharAt(s, 1) = "+" \/ CharAt(s, 1) = "-") THEN Tail(s) ELSE s

\* digits with at most one decimal point among them
PlainDecimal(s) == AllIn(s, "0123456789.") /\ CountOf(s, ".") <= 1 /\ Len(s) > CountOf(s, ".")

\* an integer or decimal literal with a sign or none
SignedDecimal(s) == PlainDecimal(Unsigned(s))

\* a signed decimal that may end in an exponent: e or E and a signed integer
ScientificDecimal(s) ==
  LET u == Unsigned(s)
      es == {i \in 1..Len(u) : CharAt(u, i) = "e" \/ CharAt(u, i) = "E"}
  IN  IF es = {} THEN PlainDecimal(u)
      ELSE /\ Cardinality(es) = 1
           /\ LET i == CHOOSE j \in es : TRUE
                  x == Unsigned(SubSeq(u, i + 1, Len(u)))
              IN  /\ PlainDecimal(SubSeq(u, 1, i - 1))
                  /\ x # "" /\ AllIn(x, "0123456789")

\* 0x, 0o or 0b (in either case) and digits of that radix, without a sign
RadixLiteral(s) ==
  /\ Len(s) >= 3
  /\ LET p == SubSeq(s, 1, 2)
         d == SubSeq(s, 3, Len(s))
     IN  \/ p \in {"0x", "0X"} /\ AllIn(d, "0123456789abcdefABCDEF")
         \/ p \in {"0o", "0O"} /\ AllIn(d, "01234567")
         \/ p \in {"0b", "0B"} /\ AllIn(d, "01")

\* what Number( s ) takes for a number, white-space-only strings excepted
NumberText(s) ==
  LET t == Trim(s)
  IN  /\ t # ""
      /\ \/ ScientificDecimal(t)
         \/ Unsigned(t) = "Infinity"
         \/ RadixLiteral(t)

\* C9, as claimed: a cell of another column than CrashLocation becomes true for
\* "yes" and false for "no" in any case, else a number exactly when it is an
\* integer or decimal literal with a sign or none, else stays the raw string.
C9_AsClaimed ==
  nval # Undefined =>
    LET raw == nraw.value
    IN  IF ToLowerCase(raw) = "yes" THEN nval = Bool(TRUE)
        ELSE IF ToLowerCase(raw) = "no" THEN nval = Bool(FALSE)
        ELSE IF SignedDecimal(raw) THEN nval.t = "number"
        ELSE nval = Str(raw)

\* C9, amended: a cell of another column than CrashLocation becomes true for
\* "yes" and false for "no" in any case, else a number exactly when, with the
\* white space around it dropped, it is a decimal literal with a sign or none
\* and possibly an exponent, Infinity with a sign or none, or a 0x, 0o or 0b
\* integer literal (no white-space-only string is), else stays the raw string.
C9_NormalizerByCases ==
  nval # Undefined =>
    LET raw == nraw.value
    IN  /\ IF ToLowerCase(raw) = "yes" THEN nval = Bool(TRUE)
           ELSE IF ToLowerCase(raw) = "no" THEN nval = Bool(FALSE)
           ELSE IF NumberText(raw) THEN nval.t = "number"
           ELSE nval = Str(raw)
        /\ raw = "1" => nval = Dec(1, 0)
        /\ raw = "10" => nval = Dec(1, 1)
        /\ raw = "-1" => nval = Dec(0 - 1, 0)
        /\ raw = "1.1" => nval = Dec(11, 0 - 1)
        /\ raw = ".1" => nval = Dec(1, 0 - 1)
        /\ raw = "1e1" => nval = Dec(1, 1)
        /\ raw = "0x1" => nval = Dec(1, 0)
        /\ raw = " 1 " => nval = Dec(1, 0)

\* a cell that is no plain decimal literal has become a number
C9_Witness == nraw.value = "1e1" /\ nval = Dec(1, 1)

-----------------------------------------------------------------------------
(* Properties of the location key *)

\* C10: the cells "A & B" and "B & A", also with runs of white space in them
\* and white space around them, get the same key, the two names in ascending
\* order joined by " & ", and so count into one entry of the breakdown.
C10_LocationKeyIsUnorderedPair ==
  locObj # EmptyObject =>
    LET a == locNames[1]
        b == locNames[2]
        key == IF StrLess(b, a) THEN b \o " & " \o a ELSE a \o " & " \o b
    IN  /\ MapValues(CRASH_LOCATION_HEADER, locA) = Str(key)
        /\ MapValues(CRASH_LOCATION_HEADER, locB) = Str(key)
        /\ locObj = <<[k |-> key, v |-> Num(2)]>>

\* both spellings of Oak St and Elm St, with white space added, were counted
\* into the one entry
C10_Witness ==
  /\ locNames = <<"Oak St", "Elm St">>
  /\ Len(locA) > Len("Oak St & Elm St")
  /\ Len(locB) > Len("Elm St & Oak St")
  /\ locObj = <<[k |-> "Elm St & Oak St", v |-> Num(2)]>>

====
